---------------------------- MODULE Spec2Model ----------------------------
(***************************************************************************)
(* A model of datasets/ucf101/producer.py: the DataSet catalog (manifest,  *)
(* class vocabulary, sample filter, train/test split), the thread-safe     *)
(* batch generator (threadsafe_iterator around frame_generator), and the   *)
(* two pure helpers rescale_list and print_class_from_prediction.          *)
(*                                                                         *)
(* Python lists are TLA+ sequences; a Python index k is the TLA+ index     *)
(* k + 1.  Strings are sequences of character codes, compared as Python    *)
(* compares str.  A call's outcome is a record whose field kind is "ok"    *)
(* or the name of the exception raised.                                    *)
(***************************************************************************)
EXTENDS Integers, Sequences, FiniteSets, TLC

VARIABLES
    \* rescale_list harness
    input_list,      \* argument input_list
    size,            \* argument size
    rescaled,        \* outcome of rescale_list(input_list, size)
    \* print_class_from_prediction harness
    predictions,     \* argument predictions
    nb_to_return,    \* argument nb_to_return
    printed,         \* outcome: the (label, score) lines printed
    \* DataSet (catalog)
    manifest,        \* rows of datasets/ucf101/data_file.csv
    constructed,     \* DataSet.__init__ has run
    seq_length,      \* self.seq_length
    class_limit,     \* self.class_limit: <<>> is None, <<n>> is n
    data,            \* self.data
    classes,         \* self.classes
    hot_arg,         \* last argument of get_class_one_hot
    hot_res,         \* its outcome
    \* frame_generator: the generator object and its frame
    gen_state,       \* "none", "created", "running", "suspended", "finished"
    batch_size,      \* argument batch_size
    train_test,      \* argument train_test
    part,            \* local data: <<>> while unbound, <<rows>> once bound
    samples,         \* local samples, as positions in the local data
    gi,              \* how many of the samples the for loop has consumed
    x,               \* local x
    y,               \* local y
    globbed,         \* history: len(frames) found for each row of this call
    \* threadsafe_iterator and its callers
    locked,          \* self.lock is held
    pc,              \* each thread's position in __next__
    outcome          \* each thread's outcome of next(self.iterator)

rescaleVars == <<input_list, size, rescaled>>
topVars     == <<predictions, nb_to_return, printed>>
catVars     == <<manifest, constructed, seq_length, class_limit, data, classes,
                 hot_arg, hot_res>>
frameVars   == <<part, samples, gi, x, y, globbed>>
genVars     == <<gen_state, batch_size, train_test, frameVars, locked, pc, outcome>>
vars        == <<rescaleVars, topVars, catVars, genVars>>

-----------------------------------------------------------------------------
(* Bounds of the model.                                                    *)

MaxLen == 6          \* longest list handed to rescale_list
MaxRows == 3         \* most rows of a manifest
MaxSeqLength == 2    \* largest seq_length a DataSet is built with
MaxClassLimit == 2   \* largest class limit a DataSet is built with
MaxPred == 4         \* most classes and most scores of a prediction
MaxTop == 5          \* largest nb_to_return
MaxBatch == 2        \* largest batch_size
MaxDisk == 3         \* most frame files glob finds for a sample
NumThreads == 2      \* threads calling __next__ on the one generator

-----------------------------------------------------------------------------
(* Outcomes.                                                               *)

NotCalled == [kind |-> "none"]
Ok(v)     == [kind |-> "ok", value |-> v]
Raise(e)  == [kind |-> e]

Min(a, b) == IF a <= b THEN a ELSE b

-----------------------------------------------------------------------------
(* Idle values of the variables a specification does not exercise.         *)

RescaleIdle == input_list = <<>> /\ size = 0 /\ rescaled = NotCalled
TopIdle     == predictions = <<>> /\ nb_to_return = 0 /\ printed = NotCalled
CatIdle     == /\ manifest = <<>> /\ constructed = FALSE /\ seq_length = 0
               /\ class_limit = <<>> /\ data = <<>> /\ classes = <<>>
               /\ hot_arg = <<>> /\ hot_res = NotCalled
Threads     == 1..NumThreads
GenIdle     == /\ gen_state = "none" /\ batch_size = 0 /\ train_test = "train"
               /\ part = <<>> /\ samples = <<>> /\ gi = 0 /\ x = <<>> /\ y = <<>>
               /\ globbed = <<>> /\ locked = FALSE
               /\ pc = [t \in Threads |-> "idle"]
               /\ outcome = [t \in Threads |-> NotCalled]

-----------------------------------------------------------------------------
(* rescale_list (staticmethod)                                             *)

\* range(start, stop, step) for step > 0, as the list of its values
RECURSIVE range(_, _, _)
range(start, stop, step) ==
    IF start >= stop THEN <<>>
    ELSE <<start>> \o range(start + step, stop, step)

\* lst[:n] for n >= 0
Take(lst, n) == SubSeq(lst, 1, Min(n, Len(lst)))

\* skip = len(input_list) // size, rounding up instead of down
SkipRoundUp(L, sz) == (L + sz - 1) \div sz

\* skip = len(input_list) // size
Skip(L, sz) == L \div sz

\* return output[:size]
CutOff(output, sz) == Take(output, sz)

rescale_list(lst, sz) ==
    IF ~(Len(lst) >= sz) THEN Raise("AssertionError")
    ELSE IF sz = 0 THEN Raise("ZeroDivisionError")
    ELSE LET skip   == Skip(Len(lst), sz)
             idx    == range(0, Len(lst), skip)
             output == [k \in 1..Len(idx) |-> lst[idx[k] + 1]]
         IN  Ok(CutOff(output, sz))

-----------------------------------------------------------------------------
(* DataSet: the catalog                                                    *)

\* self.max_frames = 300
max_frames == 300

\* a < b on str: by code point, a proper prefix first
RECURSIVE StrLess(_, _)
StrLess(a, b) ==
    IF a = <<>> THEN b # <<>>
    ELSE IF b = <<>> THEN FALSE
    ELSE IF Head(a) # Head(b) THEN Head(a) < Head(b)
    ELSE StrLess(Tail(a), Tail(b))

\* sorted(S) of a set of str
RECURSIVE sorted(_)
sorted(S) ==
    IF S = {} THEN <<>>
    ELSE LET m == CHOOSE a \in S : \A b \in S \ {a} : StrLess(a, b)
         IN  <<m>> \o sorted(S \ {m})

\* int(s) of a string of decimal digits (digit d is the number d)
RECURSIVE int(_)
int(s) ==
    IF s = <<>> THEN 0
    ELSE 10 * int(SubSeq(s, 1, Len(s) - 1)) + s[Len(s)]

Elems(lst) == {lst[k] : k \in 1..Len(lst)}

\* a row is [split, class_label, clip_id, frame_count]: x[0] is row[1], ...
Split(row)  == row[1]
Label(row)  == row[2]
Clip(row)   == row[3]
Frames(row) == row[4]

\* the class list taken from the rows that have enough frames only
ClassSourceFiltered(d, sl) ==
    {Label(d[k]) : k \in {j \in 1..Len(d) : int(Frames(d[j])) >= sl}}

\* set([item[1] for item in self.data]), self.data being the raw rows
ClassSource(d, sl) == {Label(d[k]) : k \in 1..Len(d)}

\* get_classes, with self.data = d and self.class_limit = limit
get_classes(d, sl, limit) ==
    LET all == sorted(ClassSource(d, sl))
    IN  IF limit # <<>> THEN Take(all, limit[1]) ELSE all

\* the frame count compared as text with the bounds, not as a number
FrameCountOkAsText(n, sl) == Len(n) >= sl /\ Len(n) <= 3

\* int(x[3]) >= self.seq_length and int(x[3]) <= self.max_frames
FrameCountOk(n, sl) == int(n) >= sl /\ int(n) <= max_frames

sample_filter(row, sl, cls) == FrameCountOk(Frames(row), sl) /\ Label(row) \in Elems(cls)

\* clean_data: list(filter(self.sample_filter, self.data))
clean_data(d, sl, cls) == SelectSeq(d, LAMBDA row : sample_filter(row, sl, cls))

\* split_train_test: (train, test)
split_train_test(d) ==
    <<SelectSeq(d, LAMBDA row : Split(row) = "train"),
      SelectSeq(d, LAMBDA row : Split(row) = "test")>>

\* self.classes.index(class_str), one position too far
ClassIndexOffByOne(cls, s) ==
    (CHOOSE k \in 1..Len(cls) : cls[k] = s /\ \A j \in 1..(k - 1) : cls[j] # s) % Len(cls)

\* self.classes.index(class_str) where class_str is in the list
ClassIndex(cls, s) ==
    (CHOOSE k \in 1..Len(cls) : cls[k] = s /\ \A j \in 1..(k - 1) : cls[j] # s) - 1

\* keras to_categorical(y, num_classes) of one integer
to_categorical(label_encoded, num_classes) ==
    [k \in 1..num_classes |-> IF k = label_encoded + 1 THEN 1 ELSE 0]

get_class_one_hot(cls, s) ==
    IF s \notin Elems(cls) THEN Raise("ValueError")
    ELSE Ok(to_categorical(ClassIndex(cls, s), Len(cls)))

-----------------------------------------------------------------------------
(* SpecCatalog: DataSet.__init__ on every bounded manifest, then           *)
(* get_class_one_hot on every label.                                       *)

ClassNames == {<<1>>, <<1, 2>>, <<2>>}      \* "a", "ab", "b"
OtherName  == <<3>>                         \* "c", a label in no manifest

ManifestRows ==
    { <<"train", <<1>>,    "v1", <<1>>>>,         \* 1 frame
      <<"train", <<1, 2>>, "v2", <<2>>>>,         \* 2 frames
      <<"test",  <<1, 2>>, "v3", <<1, 0>>>>,      \* 10 frames
      <<"train", <<2>>,    "v4", <<3, 0, 0>>>>,   \* 300 frames
      <<"test",  <<2>>,    "v5", <<3, 0, 1>>>>,   \* 301 frames
      <<"test",  <<1>>,    "v6", <<2>>>> }        \* 2 frames

Manifests   == UNION {[1..n -> ManifestRows] : n \in 0..MaxRows}
SeqLengths  == 0..MaxSeqLength
ClassLimits == {<<>>} \cup {<<n>> : n \in 0..MaxClassLimit}

InitCatalog ==
    /\ manifest \in Manifests
    /\ constructed = FALSE /\ seq_length = 0 /\ class_limit = <<>>
    /\ data = <<>> /\ classes = <<>>
    /\ hot_arg = <<>> /\ hot_res = NotCalled
    /\ RescaleIdle /\ TopIdle /\ GenIdle

\* DataSet.__init__(seq_length, nb_classes, input_shape)
DataSetInit ==
    /\ ~constructed
    /\ \E sl \in SeqLengths, cl \in ClassLimits :
          LET raw == manifest                        \* self.data = get_data()
              cls == get_classes(raw, sl, cl)
          IN  /\ seq_length' = sl
              /\ class_limit' = cl
              /\ classes' = cls
              /\ data' = clean_data(raw, sl, cls)
    /\ constructed' = TRUE
    /\ UNCHANGED <<manifest, hot_arg, hot_res, rescaleVars, topVars, genVars>>

\* get_class_one_hot(class_str)
GetClassOneHot ==
    /\ constructed
    /\ \E s \in ClassNames \cup {OtherName} :
          /\ hot_arg' = s
          /\ hot_res' = get_class_one_hot(classes, s)
    /\ UNCHANGED <<manifest, constructed, seq_length, class_limit, data,
                   classes, rescaleVars, topVars, genVars>>

NextCatalog == DataSetInit \/ GetClassOneHot

SpecCatalog == InitCatalog /\ [][NextCatalog]_vars

RawLabels == {Label(manifest[k]) : k \in 1..Len(manifest)}

KeepPredicate(row) ==
    /\ seq_length <= int(Frames(row)) /\ int(Frames(row)) <= 300
    /\ \E k \in 1..Len(classes) : classes[k] = Label(row)

C6_Vocabulary ==
    constructed =>
        /\ \A k \in 1..(Len(classes) - 1) : StrLess(classes[k], classes[k + 1])
        /\ Elems(classes) \subseteq RawLabels
        /\ \A a \in RawLabels \ Elems(classes) :
              \A k \in 1..Len(classes) : StrLess(classes[k], a)
        /\ Len(classes) = IF class_limit = <<>> THEN Cardinality(RawLabels)
                          ELSE Min(class_limit[1], Cardinality(RawLabels))

\* a limit that truncates, with a vocabulary label whose only rows are
\* filtered out
C6_Witness ==
    /\ constructed /\ class_limit # <<>>
    /\ 1 <= Len(classes) /\ Len(classes) < Cardinality(RawLabels)
    /\ \E a \in Elems(classes) : \A k \in 1..Len(data) : Label(data[k]) # a

\* C7: for a label of the vocabulary get_class_one_hot returns a vector of
\* length |vocabulary| with exactly one 1, at the label's index, and the
\* vocabulary holds the label at that index; for a label outside the
\* vocabulary the lookup fails; no sample that passed the filter has such
\* a label.
C7_OneHot ==
    (constructed /\ hot_res # NotCalled) =>
        /\ hot_arg \in Elems(classes) =>
              /\ hot_res.kind = "ok"
              /\ Len(hot_res.value) = Len(classes)
              /\ Cardinality({k \in 1..Len(classes) : hot_res.value[k] = 1}) = 1
              /\ \A k \in 1..Len(classes) :
                    hot_res.value[k] = (IF classes[k] = hot_arg THEN 1 ELSE 0)
              /\ classes[ClassIndex(classes, hot_arg) + 1] = hot_arg
              /\ hot_res.value[ClassIndex(classes, hot_arg) + 1] = 1
        /\ hot_arg \notin Elems(classes) => hot_res.kind = "ValueError"
        /\ \A k \in 1..Len(data) :
              get_class_one_hot(classes, Label(data[k])).kind = "ok"

\* a label encoded at a position other than the first, with samples kept
C7_Witness ==
    /\ constructed /\ hot_res.kind = "ok" /\ Len(classes) >= 2
    /\ hot_res.value[2] = 1 /\ Len(data) >= 1

-----------------------------------------------------------------------------
(* print_class_from_prediction (staticmethod)                              *)

Reverse(lst) == [k \in 1..Len(lst) |-> lst[Len(lst) + 1 - k]]

\* e put into the ascending list lst after every entry whose key is <= its own
RECURSIVE InsertAfterEqual(_, _)
InsertAfterEqual(lst, e) ==
    IF lst = <<>> THEN <<e>>
    ELSE IF lst[1][2] <= e[2] THEN <<lst[1]>> \o InsertAfterEqual(Tail(lst), e)
    ELSE <<e>> \o lst

\* a stable ascending sort of (label, score) pairs by score
RECURSIVE StableSortAscending(_)
StableSortAscending(lst) ==
    IF lst = <<>> THEN <<>>
    ELSE InsertAfterEqual(StableSortAscending(SubSeq(lst, 1, Len(lst) - 1)),
                          lst[Len(lst)])

\* sorted(items, key=itemgetter(1))[::-1]: equal scores come out reversed
SortedThenReversed(items) == Reverse(StableSortAscending(items))

\* sorted(items, key=operator.itemgetter(1), reverse=True): the list is
\* reversed, sorted stably ascending, and reversed again
SortedReverse(items) == Reverse(StableSortAscending(Reverse(items)))

\* the loop over enumerate(sorted_lps) from position i on: the lines printed
RECURSIVE PrintLoop(_, _, _)
PrintLoop(lps, i, n) ==
    IF i >= Len(lps) THEN <<>>
    ELSE IF i > n - 1 \/ lps[i + 1][2] = 0 THEN <<>>
    ELSE <<lps[i + 1]>> \o PrintLoop(lps, i + 1, n)

\* print_class_from_prediction(predictions, nb_to_return), data.classes = cls
print_class_from_prediction(cls, preds, n) ==
    IF Len(preds) < Len(cls) THEN Raise("IndexError")
    ELSE LET label_predictions == [k \in 1..Len(cls) |-> <<cls[k], preds[k]>>]
         IN  Ok(PrintLoop(SortedReverse(label_predictions), 0, n))

-----------------------------------------------------------------------------
(* SpecTop: print_class_from_prediction on every bounded input.  A score   *)
(* is a number of tenths: 9 is 0.9.                                        *)

Scores == {-1, 0, 1, 9}

TopVocabulary == [k \in 1..MaxPred |-> <<k>>]       \* "a", "b", "c", "d"

InitTop ==
    /\ predictions \in UNION {[1..n -> Scores] : n \in 0..MaxPred}
    /\ nb_to_return \in 0..MaxTop
    /\ printed = NotCalled
    /\ manifest = <<>> /\ constructed = TRUE /\ seq_length = 0
    /\ class_limit = <<>> /\ data = <<>>
    /\ classes \in {SubSeq(TopVocabulary, 1, n) : n \in 0..MaxPred}
    /\ hot_arg = <<>> /\ hot_res = NotCalled
    /\ RescaleIdle /\ GenIdle

PrintClassFromPrediction ==
    /\ printed = NotCalled
    /\ printed' = print_class_from_prediction(classes, predictions, nb_to_return)
    /\ UNCHANGED <<predictions, nb_to_return, rescaleVars, catVars, genVars>>

NextTop == PrintClassFromPrediction

SpecTop == InitTop /\ [][NextTop]_vars

\* how many pairs come before pair k: a higher score, or the same score
\* and an earlier position
Before(k) ==
    Cardinality({j \in 1..Len(classes) :
        \/ predictions[j] > predictions[k]
        \/ predictions[j] = predictions[k] /\ j < k})

Ranked ==
    [p \in 1..Len(classes) |->
        LET k == CHOOSE k \in 1..Len(classes) : Before(k) = p - 1
        IN  <<classes[k], predictions[k]>>]

\* C8: score i is paired with vocabulary[i], the pairs are ordered by
\* descending score with equal scores in their original order, and what
\* is reported is the longest prefix of that order with at most n entries
\* and no zero score; scores 0.9, 0.1, 0, 0 over a, b, c, d with n = 5
\* give (a, 0.9), (b, 0.1).
C8_TopPredictions ==
    (printed # NotCalled /\ Len(predictions) >= Len(classes)) =>
        /\ printed.kind = "ok"
        /\ Len(printed.value) <= nb_to_return
        /\ Len(printed.value) <= Len(classes)
        /\ printed.value = SubSeq(Ranked, 1, Len(printed.value))
        /\ \A p \in 1..Len(printed.value) : printed.value[p][2] # 0
        /\ \/ Len(printed.value) = nb_to_return
           \/ Len(printed.value) = Len(classes)
           \/ Ranked[Len(printed.value) + 1][2] = 0
        /\ (predictions = <<9, 1, 0, 0>> /\ Len(classes) = 4 /\ nb_to_return = 5)
              => printed.value = << <<TopVocabulary[1], 9>>, <<TopVocabulary[2], 1>> >>

\* equal scores ahead of a zero that stops the report before n entries
C8_Witness ==
    /\ printed.kind = "ok" /\ Len(classes) = 4 /\ Len(predictions) = 4
    /\ predictions[1] = 1 /\ predictions[2] = 9 /\ predictions[3] = 1
    /\ predictions[4] = 0 /\ nb_to_return = 4
    /\ Len(printed.value) = 3

-----------------------------------------------------------------------------
(* SpecRescale: rescale_list applied to every bounded input.               *)

FrameNames == {1, 2}

\* the lists of the docstring and of the worked examples: 25 and 23 entries
ExampleLists == {[k \in 1..25 |-> k - 1], [k \in 1..23 |-> k - 1]}
RescaleInputs ==
    UNION {[1..n -> FrameNames] : n \in 0..MaxLen}

InitRescale ==
    /\ \/ input_list \in RescaleInputs /\ size \in 0..(MaxLen + 1)
       \/ input_list \in ExampleLists /\ size = 5
    /\ rescaled = NotCalled
    /\ TopIdle /\ CatIdle /\ GenIdle

RescaleCall ==
    /\ rescaled = NotCalled
    /\ rescaled' = rescale_list(input_list, size)
    /\ UNCHANGED <<input_list, size, topVars, catVars, genVars>>

NextRescale == RescaleCall

SpecRescale == InitRescale /\ [][NextRescale]_vars

\* C1: for 1 <= size <= L, rescale_list returns exactly size entries, the
\* k-th (k = 0..size-1) being the input element at index k * floor(L / size);
\* L = 25, size = 5 selects indices 0,5,10,15,20 and L = 23, size = 5
\* selects 0,4,8,12,16.
C1_Rescale ==
    (rescaled # NotCalled /\ 1 <= size /\ size <= Len(input_list)) =>
        /\ rescaled.kind = "ok"
        /\ Len(rescaled.value) = size
        /\ \A k \in 0..(size - 1) :
              rescaled.value[k + 1] =
                  input_list[k * (Len(input_list) \div size) + 1]
        /\ (Len(input_list) = 25 /\ size = 5 /\ input_list \in ExampleLists)
              => rescaled.value = <<0, 5, 10, 15, 20>>
        /\ (Len(input_list) = 23 /\ size = 5 /\ input_list \in ExampleLists)
              => rescaled.value = <<0, 4, 8, 12, 16>>

\* a call where truncation is needed: L = 23, size = 5 has 6 candidates
C1_Witness ==
    /\ rescaled.kind = "ok"
    /\ Len(input_list) = 23 /\ size = 5
    /\ Len(range(0, Len(input_list), Skip(Len(input_list), size))) > size

-----------------------------------------------------------------------------
(* frame_generator behind threadsafe_iterator                              *)

\* get_frames_for_sample when glob finds n files: their sorted paths
get_frames_for_sample(sample, n) ==
    [j \in 1..n |-> <<Split(sample), Label(sample), Clip(sample), j>>]

\* process_image(path, shape): the image decoded from the file at path
process_image(path) == <<"image", path>>

\* one element of np.zeros
ZeroImage == <<"zeros", <<>>>>

\* build_image_sequence
build_image_sequence(frames) == [k \in 1..Len(frames) |-> process_image(frames[k])]

Injective(s) == \A a, b \in DOMAIN s : a # b => s[a] # s[b]

\* random.choices(data, k=batch_size): positions drawn with replacement
random_choices(n, k) == [1..k -> 1..n]

\* random.sample(data, batch_size) over n rows: the position lists it can
\* return; none when k > n, where it raises ValueError
random_sample(n, k) ==
    IF k > n THEN {} ELSE {s \in [1..k -> 1..n] : Injective(s)}

\* the partition bound when the generator object is made
PartEager(d, tt) ==
    << IF tt = "train" THEN split_train_test(d)[1] ELSE split_train_test(d)[2] >>

\* calling frame_generator makes the generator object and runs none of
\* its body: the local data is not bound yet
PartAtCreation(d, tt) == <<>>

\* lines 111-112, run by the first next(): train if train_test == 'train' else test
PartAtFirstNext(d, tt) ==
    << IF tt = "train" THEN split_train_test(d)[1] ELSE split_train_test(d)[2] >>

\* a lock that lets every caller in
CanAcquireAlways(l) == TRUE

\* threading.Lock.acquire returns once the lock is not held
CanAcquire(l) == ~l

\* a release that happens only after a normal return
LockedAfterReturnOnly(o) == o.kind # "ok"

\* leaving "with self.lock" releases the lock, on return and on exception
LockedAfterExit(o) == FALSE

\* y[i] = self.get_class_one_hot(sample[1]), sample being samples[i]
LabelRow(p, smp, i) == Label(p[smp[i]])

Zeros(n, v) == [k \in 1..n |-> v]

FrameDiscarded ==
    /\ part' = <<>> /\ samples' = <<>> /\ gi' = 0 /\ x' = <<>> /\ y' = <<>>

-----------------------------------------------------------------------------
(* Spec: one DataSet, one generator made by frame_generator, and           *)
(* NumThreads threads calling __next__ on it.                              *)

GenManifests ==
    { <<>>,
      << <<"train", <<1>>, "v1", <<1>>>>, <<"train", <<1, 2>>, "v2", <<2>>>>,
         <<"train", <<2>>, "v4", <<3, 0, 0>>>> >>,
      << <<"train", <<1, 2>>, "v2", <<2>>>>, <<"test", <<1, 2>>, "v3", <<1, 0>>>>,
         <<"test", <<2>>, "v5", <<3, 0, 1>>>> >>,
      << <<"test", <<1>>, "v6", <<2>>>>, <<"test", <<1>>, "v6", <<2>>>>,
         <<"train", <<2>>, "v4", <<3, 0, 0>>>> >> }

Init ==
    /\ manifest \in GenManifests
    /\ constructed = TRUE
    /\ seq_length \in 1..MaxSeqLength
    /\ class_limit \in ClassLimits \ {<<0>>}
    /\ classes = get_classes(manifest, seq_length, class_limit)
    /\ data = clean_data(manifest, seq_length, classes)
    /\ hot_arg = <<>> /\ hot_res = NotCalled
    /\ RescaleIdle /\ TopIdle /\ GenIdle

\* data.frame_generator(batch_size, train_test)
FrameGenerator ==
    /\ gen_state = "none"
    /\ \E b \in 0..MaxBatch, tt \in {"train", "test"} :
          /\ batch_size' = b
          /\ train_test' = tt
          /\ part' = PartAtCreation(data, tt)
    /\ gen_state' = "created"
    /\ UNCHANGED <<samples, gi, x, y, globbed, locked, pc, outcome,
                   rescaleVars, topVars, catVars>>

\* a thread calls __next__ and reaches "with self.lock"
Call(t) ==
    /\ gen_state # "none"
    /\ pc[t] = "idle"
    /\ pc' = [pc EXCEPT ![t] = "acquire"]
    /\ UNCHANGED <<gen_state, batch_size, train_test, frameVars, locked, outcome,
                   rescaleVars, topVars, catVars>>

\* self.lock.__enter__
Acquire(t) ==
    /\ pc[t] = "acquire"
    /\ CanAcquire(locked)
    /\ locked' = TRUE
    /\ pc' = [pc EXCEPT ![t] = "next"]
    /\ UNCHANGED <<gen_state, batch_size, train_test, frameVars, outcome,
                   rescaleVars, topVars, catVars>>

\* next(self.iterator) up to the for loop: the body starts (lines 111-114)
\* or resumes after the yield, then lines 117-119
Resume(t) ==
    /\ pc[t] = "next"
    /\ UNCHANGED <<batch_size, train_test, locked, rescaleVars, topVars, catVars>>
    /\ IF gen_state = "finished"
         THEN /\ outcome' = [outcome EXCEPT ![t] = Raise("StopIteration")]
              /\ pc' = [pc EXCEPT ![t] = "exit"]
              /\ UNCHANGED <<gen_state, frameVars>>
       ELSE IF gen_state = "running"
         THEN \* generator already executing
              /\ outcome' = [outcome EXCEPT ![t] = Raise("ValueError")]
              /\ pc' = [pc EXCEPT ![t] = "exit"]
              /\ UNCHANGED <<gen_state, frameVars>>
       ELSE LET p == IF gen_state = "created"
                       THEN PartAtFirstNext(data, train_test) ELSE part
                draws == random_sample(Len(p[1]), batch_size)
            IN  /\ globbed' = <<>>
                /\ IF draws = {}
                     THEN /\ gen_state' = "finished"
                          /\ FrameDiscarded
                          /\ outcome' = [outcome EXCEPT ![t] = Raise("ValueError")]
                          /\ pc' = [pc EXCEPT ![t] = "exit"]
                     ELSE /\ gen_state' = "running"
                          /\ part' = p
                          /\ x' = Zeros(batch_size, Zeros(seq_length, ZeroImage))
                          /\ y' = Zeros(batch_size, Zeros(Len(classes), 0))
                          /\ samples' \in draws
                          /\ gi' = 0
                          /\ pc' = [pc EXCEPT ![t] = "body"]
                          /\ UNCHANGED outcome

\* one pass of the for loop (lines 122-131)
FillRow(t) ==
    /\ pc[t] = "body"
    /\ gi < Len(samples)
    /\ UNCHANGED <<batch_size, train_test, locked, rescaleVars, topVars, catVars>>
    /\ \E n \in 0..MaxDisk :
          LET i              == gi + 1
              sample         == part[1][samples[i]]
              frames         == get_frames_for_sample(sample, n)
              sampled_frames == rescale_list(frames, seq_length)
              label_hot      == get_class_one_hot(classes, LabelRow(part[1], samples, i))
              failed         == IF sampled_frames.kind # "ok" THEN sampled_frames
                                ELSE label_hot
          IN  /\ globbed' = Append(globbed, n)
              /\ IF failed.kind # "ok"
                   THEN /\ gen_state' = "finished"
                        /\ FrameDiscarded
                        /\ outcome' = [outcome EXCEPT ![t] = Raise(failed.kind)]
                        /\ pc' = [pc EXCEPT ![t] = "exit"]
                   ELSE /\ x' = [x EXCEPT ![i] = build_image_sequence(sampled_frames.value)]
                        /\ y' = [y EXCEPT ![i] = label_hot.value]
                        /\ gi' = i
                        /\ UNCHANGED <<gen_state, part, samples, outcome, pc>>

\* yield x, y (line 133)
Yield(t) ==
    /\ pc[t] = "body"
    /\ gi = Len(samples)
    /\ gen_state' = "suspended"
    /\ outcome' = [outcome EXCEPT ![t] = Ok(<<x, y>>)]
    /\ pc' = [pc EXCEPT ![t] = "exit"]
    /\ UNCHANGED <<batch_size, train_test, frameVars, locked,
                   rescaleVars, topVars, catVars>>

\* self.lock.__exit__, then __next__ returns or raises to its caller
Exit(t) ==
    /\ pc[t] = "exit"
    /\ locked' = LockedAfterExit(outcome[t])
    /\ pc' = [pc EXCEPT ![t] = "idle"]
    /\ outcome' = [outcome EXCEPT ![t] = NotCalled]
    /\ UNCHANGED <<gen_state, batch_size, train_test, frameVars,
                   rescaleVars, topVars, catVars>>

Next ==
    \/ FrameGenerator
    \/ \E t \in Threads : Call(t)
    \/ \E t \in Threads : Acquire(t)
    \/ \E t \in Threads : Resume(t)
    \/ \E t \in Threads : FillRow(t)
    \/ \E t \in Threads : Yield(t)
    \/ \E t \in Threads : Exit(t)

Spec == Init /\ [][Next]_vars

\* a thread that has entered "with self.lock" runs on; a thread waiting
\* for the lock gets it if it is free again and again
FairSpec ==
    /\ Spec
    /\ \A t \in Threads :
          /\ SF_vars(Acquire(t))
          /\ WF_vars(Resume(t)) /\ WF_vars(FillRow(t))
          /\ WF_vars(Yield(t)) /\ WF_vars(Exit(t))

-----------------------------------------------------------------------------
(* Properties of the generator.                                            *)

\* the partition the generator was asked for, from the catalog
Partition ==
    IF train_test = "train" THEN split_train_test(data)[1]
    ELSE split_train_test(data)[2]

InLock(t) == pc[t] \in {"next", "body", "exit"}

\* row i of a returned batch is built from the sample smp, whose frame
\* list had n entries
RowFrom(X, Y, i, smp, n) ==
    /\ Len(X[i]) = seq_length
    /\ \A j \in 1..seq_length :
          X[i][j] = <<"image", <<Split(smp), Label(smp), Clip(smp),
                                 (j - 1) * (n \div seq_length) + 1>> >>
    /\ Len(Y[i]) = Len(classes)
    /\ \A k \in 1..Len(classes) :
          Y[i][k] = (IF classes[k] = Label(smp) THEN 1 ELSE 0)

\* C2: at most one caller is inside "with self.lock", so at most one runs
\* the generator body; and in every returned (X, Y), for each row i, X[i]
\* and Y[i] both come from the i-th sample drawn by that call.
C2_Serialized ==
    /\ Cardinality({t \in Threads : InLock(t)}) <= 1
    /\ \A t \in Threads :
          (pc[t] = "exit" /\ outcome[t].kind = "ok") =>
              \A i \in 1..batch_size :
                  RowFrom(outcome[t].value[1], outcome[t].value[2], i,
                          Partition[samples[i]], globbed[i])

\* a caller is filling the second row while another waits for the lock
C2_Witness ==
    \E t, u \in Threads :
        /\ pc[t] = "body" /\ gi = 1 /\ batch_size = 2
        /\ pc[u] = "acquire"

\* C3: a call returns a batch of exactly batch_size rows, each filled from
\* a distinct drawn sample of the partition, or it fails and returns no
\* batch; it fails whenever batch_size > |partition|, and whenever a drawn
\* sample's frame list is empty or shorter than seq_length.
C3_AllOrNothing ==
    \A t \in Threads :
        pc[t] = "exit" =>
            /\ outcome[t].kind = "ok" =>
                  /\ Len(outcome[t].value[1]) = batch_size
                  /\ Len(outcome[t].value[2]) = batch_size
                  /\ Len(globbed) = batch_size
                  /\ \E s \in [1..batch_size -> 1..Len(Partition)] :
                        /\ \A a, b \in 1..batch_size : a # b => s[a] # s[b]
                        /\ \A i \in 1..batch_size :
                              RowFrom(outcome[t].value[1], outcome[t].value[2], i,
                                      Partition[s[i]], globbed[i])
            /\ batch_size > Len(Partition) => outcome[t].kind # "ok"
            /\ (\E i \in 1..Len(globbed) : globbed[i] = 0 \/ globbed[i] < seq_length)
                  => outcome[t].kind # "ok"

\* the second sample's frame list is too short after the first row was
\* filled: the call raises and the half-built batch is not returned
C3_Witness ==
    \E t \in Threads :
        /\ pc[t] = "exit" /\ outcome[t].kind = "AssertionError"
        /\ Len(globbed) = 2 /\ globbed[1] >= seq_length /\ globbed[2] >= 1

\* C4: a call never signals end-of-sequence (StopIteration), whatever the
\* calls before it did.
C4_NeverEnds ==
    \A t \in Threads : outcome[t].kind # "StopIteration"

=============================================================================
